---- MODULE Spec2Model ----
(***************************************************************************)
(* State-machine model of the Spectre AI orchestration core:               *)
(*   - Orchestrator (src/src/core/orchestrator.ts): agent, project and     *)
(*     plan registries, project lifecycle, plan generation and execution;  *)
(*   - PlannerAgent (src/src/agents/index.ts): templates and plan store.   *)
(* JavaScript Maps are modelled as insertion-ordered sequences of          *)
(* <key, value> entries; Project objects live in a heap so that a handler  *)
(* suspended at an await keeps writing to the object it captured.          *)
(***************************************************************************)
EXTENDS Integers, Sequences, FiniteSets, TLC

\* ---------------------------------------------------------------- bounds
MaxWaits    == 1      \* long clock advances (one execution wait each) explored
MaxMs       == 1      \* single-millisecond ticks explored after each long wait
MaxProjects == 2      \* Project objects ever constructed
MaxPlans    == 2      \* entries of the Orchestrator's plan map
MaxExec     == 1      \* executeProjectPlan calls suspended at the same time
MaxPlannerPlans == 1  \* entries of the Planner's plan map
MaxCreatedPlans == 2  \* plans stored when plans are only created
MaxSteps    == 8      \* steps a Planner plan may grow to by addStep
MaxStepClock == 5000  \* latest clock reading at which an executeStep call starts
MaxSessions == 1       \* question sessions started

\* ------------------------------------------------------ program constants
ExecDelay == 2000     \* setTimeout(resolve, 2000) in executeProjectPlan

\* --------------------------------------------------------------- domains
ProjectStatus == {"planning", "active", "executing", "completed", "stopped", "failed"}
PlanStatus    == {"draft", "approved", "executing", "completed", "failed"}
ProjectType   == {"website", "automation"}

\* what callers pass as a project type / name (the transport passes req.body on)
TypeInputs == ProjectType
NameInputs == {"app"}

\* agents a caller may register: the name is the registry key
AgentInputs == [name : {"planner"}, version : {"1.0.0"}]
\* agents for the registry on its own: two names, two agents per name, and a
\* name that is looked up but never registered
RegistryInputs == [name : {"planner", "executor"}, version : {"1.0.0", "2.0.0"}]
LookupInputs == {"planner", "executor", "reviewer"}
Undefined == "undefined"

UnknownId == -1       \* a project id createProject never issued
NoTs      == -1       \* "no timestamp suffix" of a template step id
NoPlanId  == [pid |-> UnknownId, ts |-> NoTs]

VARIABLES
  now,            \* Date.now()
  isShutdown,     \* Orchestrator.isShutdown
  agents,         \* Orchestrator.agents   : Seq([key, val])
  heap,           \* every Project object constructed so far
  projects,       \* Orchestrator.projects : Seq([key, ref]), ref indexes heap
  plans,          \* Orchestrator.plans    : Seq([key, val])
  executions,     \* executeProjectPlan calls suspended at the await
  last,           \* outcome of the handler call that ran last
  plannerPlans,   \* PlannerAgent.plans    : Seq([key, val])
  templates,      \* PlannerAgent.templates: Seq([key, val]), val the steps
  activeSessions  \* QuestionerAgent.activeSessions : Seq([key, val])

vars == <<now, isShutdown, agents, heap, projects, plans, executions, last, plannerPlans,
          templates, activeSessions>>
orchVars == <<isShutdown, agents, heap, projects, plans, executions>>

\* ------------------------------------------------------------ Map helpers
Keys(m) == {m[i].key : i \in 1..Len(m)}

MapHas(m, k) == k \in Keys(m)

MapIndex(m, k) == CHOOSE i \in 1..Len(m) : m[i].key = k

\* Map.prototype.set: an existing key keeps its position, a new key is appended
MapSet(m, k, entry) ==
  IF MapHas(m, k) THEN [m EXCEPT ![MapIndex(m, k)] = entry] ELSE Append(m, entry)

\* Array.prototype.find over Map.values(): index of the first match, 0 if none
RECURSIVE FindFrom(_, _, _)
FindFrom(m, i, pid) ==
  IF i > Len(m) THEN 0
  ELSE IF m[i].val.projectId = pid THEN i
  ELSE FindFrom(m, i + 1, pid)

FindPlanFor(m, pid) == FindFrom(m, 1, pid)

\* ------------------------------------------------------------ call record
NoCall == [op |-> "none", arg |-> UnknownId, err |-> "", prev |-> "none", ret |-> "none"]

\* prev: the status the project had when a successful start/stop call found it;
\*       for shutdown and the read-only calls, the call that ran before it
\*       and for registerAgent, the version of the agent it replaced
\* ret:  the value a read-only call returned
CallRet(op, arg, err, prev, ret) ==
  [op |-> op, arg |-> arg, err |-> err, prev |-> prev, ret |-> ret]

CallFrom(op, arg, err, prev) == CallRet(op, arg, err, prev, "none")

Call(op, arg, err) == CallFrom(op, arg, err, "none")

\* project ids a caller may pass: every id ever issued, and one never issued
IdInputs == {heap[i].id : i \in 1..Len(heap)} \cup {UnknownId}

StatusOf(pid) == heap[projects[MapIndex(projects, pid)].ref].status

\* ------------------------------------------------------------ PlannerAgent
\* Step and plan identities are strings `${base}_${timestamp}`; a template
\* step id is the bare base.  name/description are labels no operation reads
\* and are left out of the step record.
StepId(base, ts) == [base |-> base, ts |-> ts]
TId(base) == StepId(base, NoTs)

TStep(base, type, deps, duration, required, order) ==
  [id |-> TId(base), type |-> type, dependencies |-> deps,
   estimatedDuration |-> duration, required |-> required, order |-> order,
   status |-> "undefined"]

WebsiteTemplate ==
  << TStep("setup_repo", "setup", <<>>, 30, TRUE, 1),
     TStep("setup_project", "setup", <<TId("setup_repo")>>, 45, TRUE, 2),
     TStep("design_architecture", "planning", <<TId("setup_project")>>, 60, TRUE, 3),
     TStep("setup_database", "infrastructure", <<TId("design_architecture")>>, 90, TRUE, 4),
     TStep("create_backend", "development", <<TId("setup_database")>>, 180, TRUE, 5),
     TStep("create_frontend", "development", <<TId("create_backend")>>, 240, TRUE, 6),
     TStep("setup_cms", "integration", <<TId("create_backend")>>, 120, FALSE, 7),
     TStep("setup_deployment", "deployment", <<TId("create_frontend")>>, 90, TRUE, 8),
     TStep("testing", "testing", <<TId("setup_deployment")>>, 120, TRUE, 9),
     TStep("deployment", "deployment", <<TId("testing")>>, 60, TRUE, 10) >>

AutomationTemplate ==
  << TStep("analyze_requirements", "analysis", <<>>, 60, TRUE, 1),
     TStep("design_workflow", "planning", <<TId("analyze_requirements")>>, 90, TRUE, 2),
     TStep("setup_integrations", "integration", <<TId("design_workflow")>>, 120, TRUE, 3),
     TStep("create_workflow", "development", <<TId("setup_integrations")>>, 180, TRUE, 4),
     TStep("setup_monitoring", "infrastructure", <<TId("create_workflow")>>, 90, TRUE, 5),
     TStep("testing_automation", "testing", <<TId("setup_monitoring")>>, 120, TRUE, 6),
     TStep("deploy_automation", "deployment", <<TId("testing_automation")>>, 60, TRUE, 7) >>

\* the templates the PlannerAgent constructor fills this.templates with
initializeTemplates ==
  << [key |-> "website", val |-> WebsiteTemplate],
     [key |-> "automation", val |-> AutomationTemplate] >>

\* ------------------------------------------------------------------ Init
Init ==
  /\ now = 0
  /\ isShutdown = FALSE
  /\ agents = <<>>
  /\ heap = <<>>
  /\ projects = <<>>
  /\ plans = <<>>
  /\ executions = <<>>
  /\ last = NoCall
  /\ plannerPlans = <<>>
  /\ templates = initializeTemplates
  /\ activeSessions = <<>>

\* the clock advances by a millisecond or by the length of the execution wait
TickBy(d) ==
  /\ d = 1 => (now % ExecDelay) < MaxMs
  /\ d = ExecDelay => (now \div ExecDelay) < MaxWaits
  /\ now' = now + d
  /\ UNCHANGED <<orchVars, last, plannerPlans, templates, activeSessions>>

Tick == \E d \in {1, ExecDelay} : TickBy(d)

\* -------------------------------------------------------- Orchestrator
\* Map.prototype.get
MapGet(m, k) == IF MapHas(m, k) THEN m[MapIndex(m, k)].val ELSE Undefined

\* Map.prototype.values, as Array.from lists them
MapValues(m) == [i \in 1..Len(m) |-> m[i].val]

Replaced(name) == IF MapHas(agents, name) THEN MapGet(agents, name).version ELSE "none"

\* registerAgent that removes the name's entry and adds the agent at the end
registerAgent_MoveToEnd(agent) ==
  /\ agents' = Append(SelectSeq(agents, LAMBDA e : e.key # agent.name),
                      [key |-> agent.name, val |-> agent])
  /\ last' = CallFrom("registerAgent", agent, "", Replaced(agent.name))
  /\ UNCHANGED <<now, isShutdown, heap, projects, plans, executions, plannerPlans, templates, activeSessions>>

registerAgent(agent) ==
  /\ agents' = MapSet(agents, agent.name, [key |-> agent.name, val |-> agent])
  /\ last' = CallFrom("registerAgent", agent, "", Replaced(agent.name))
  /\ UNCHANGED <<now, isShutdown, heap, projects, plans, executions, plannerPlans, templates, activeSessions>>

getAgent(name) ==
  /\ last' = CallRet("getAgent", name, "", last.op, MapGet(agents, name))
  /\ UNCHANGED <<now, orchVars, plannerPlans, templates, activeSessions>>

getAllAgents ==
  /\ last' = CallRet("getAllAgents", UnknownId, "", last.op, MapValues(agents))
  /\ UNCHANGED <<now, orchVars, plannerPlans, templates, activeSessions>>

\* description, createdAt, updatedAt and metadata are written once here (and
\* updatedAt by start/stop/execute) and read by no operation; they are left out
\* of the Project record.  The id is `project_${Date.now()}`.
createProject(name, type) ==
  /\ Len(heap) < MaxProjects
  /\ LET project == [id |-> now, name |-> name, type |-> type, status |-> "planning"]
     IN /\ heap' = Append(heap, project)
        /\ projects' = MapSet(projects, project.id,
                              [key |-> project.id, ref |-> Len(heap) + 1])
        /\ last' = Call("createProject", project.id, "")
  /\ UNCHANGED <<now, isShutdown, agents, plans, executions, plannerPlans, templates, activeSessions>>

\* startProject that refuses to restart a stopped project
startProject_OnlyFromPlanning(projectId) ==
  /\ IF ~MapHas(projects, projectId)
     THEN /\ last' = Call("startProject", projectId, "Project not found")
          /\ UNCHANGED heap
     ELSE LET ref == projects[MapIndex(projects, projectId)].ref
          IN /\ heap' = [heap EXCEPT ![ref].status =
                          IF @ = "planning" THEN "active" ELSE @]
             /\ last' = CallFrom("startProject", projectId, "", heap[ref].status)
  /\ UNCHANGED <<now, isShutdown, agents, projects, plans, executions, plannerPlans, templates, activeSessions>>

startProject(projectId) ==
  /\ IF ~MapHas(projects, projectId)
     THEN /\ last' = Call("startProject", projectId, "Project not found")
          /\ UNCHANGED heap
     ELSE LET ref == projects[MapIndex(projects, projectId)].ref
          IN /\ heap' = [heap EXCEPT ![ref].status = "active"]
             /\ last' = CallFrom("startProject", projectId, "", heap[ref].status)
  /\ UNCHANGED <<now, isShutdown, agents, projects, plans, executions, plannerPlans, templates, activeSessions>>

stopProject(projectId) ==
  /\ IF ~MapHas(projects, projectId)
     THEN /\ last' = Call("stopProject", projectId, "Project not found")
          /\ UNCHANGED heap
     ELSE LET ref == projects[MapIndex(projects, projectId)].ref
          IN /\ heap' = [heap EXCEPT ![ref].status = "stopped"]
             /\ last' = CallFrom("stopProject", projectId, "", heap[ref].status)
  /\ UNCHANGED <<now, isShutdown, agents, projects, plans, executions, plannerPlans, templates, activeSessions>>

\* generateExecutionPlan that never looks the planner up
generateExecutionPlan_NoPlannerCheck(projectId) ==
  /\ IF ~MapHas(projects, projectId)
     THEN /\ last' = Call("generateExecutionPlan", projectId, "Project not found")
          /\ UNCHANGED plans
     ELSE LET project == heap[projects[MapIndex(projects, projectId)].ref]
              plan == [id |-> [pid |-> projectId, ts |-> now],
                       projectId |-> projectId,
                       projectType |-> project.type,
                       steps |-> <<>>,
                       status |-> "draft",
                       createdAt |-> now,
                       estimatedDuration |-> 0]
          IN /\ MapHas(plans, plan.id) \/ Len(plans) < MaxPlans
             /\ plans' = MapSet(plans, plan.id, [key |-> plan.id, val |-> plan])
             /\ last' = Call("generateExecutionPlan", projectId, "")
  /\ UNCHANGED <<now, isShutdown, agents, heap, projects, executions, plannerPlans, templates, activeSessions>>

generateExecutionPlan(projectId) ==
  /\ IF ~MapHas(projects, projectId)
     THEN /\ last' = Call("generateExecutionPlan", projectId, "Project not found")
          /\ UNCHANGED plans
     ELSE IF ~MapHas(agents, "planner")
     THEN /\ last' = Call("generateExecutionPlan", projectId, "Planner agent not found")
          /\ UNCHANGED plans
     ELSE LET project == heap[projects[MapIndex(projects, projectId)].ref]
              plan == [id |-> [pid |-> projectId, ts |-> now],
                       projectId |-> projectId,
                       projectType |-> project.type,
                       steps |-> <<>>,
                       status |-> "draft",
                       createdAt |-> now,
                       estimatedDuration |-> 0]
          IN /\ MapHas(plans, plan.id) \/ Len(plans) < MaxPlans
             /\ plans' = MapSet(plans, plan.id, [key |-> plan.id, val |-> plan])
             /\ last' = Call("generateExecutionPlan", projectId, "")
  /\ UNCHANGED <<now, isShutdown, agents, heap, projects, executions, plannerPlans, templates, activeSessions>>

\* executeProjectPlan that marks the project executing before it looks for a plan
executeProjectPlanBegin_StatusFirst(projectId) ==
  /\ IF ~MapHas(projects, projectId)
     THEN /\ last' = Call("executeProjectPlan", projectId, "Project not found")
          /\ UNCHANGED <<heap, executions>>
     ELSE LET ref == projects[MapIndex(projects, projectId)].ref
          IN /\ heap' = [heap EXCEPT ![ref].status = "executing"]
             /\ IF FindPlanFor(plans, projectId) = 0
                THEN /\ last' = Call("executeProjectPlan", projectId,
                                     "No plan found for project")
                     /\ UNCHANGED executions
                ELSE /\ Len(executions) < MaxExec
                     /\ executions' = Append(executions,
                          [pid |-> projectId, ref |-> ref,
                           plan |-> plans[FindPlanFor(plans, projectId)].val.id,
                           start |-> now])
                     /\ last' = Call("executeProjectPlan.await", projectId, "")
  /\ UNCHANGED <<now, isShutdown, agents, projects, plans, plannerPlans, templates, activeSessions>>

\* executeProjectPlan up to its await: lookups, status = 'executing', timer armed
executeProjectPlanBegin(projectId) ==
  /\ IF ~MapHas(projects, projectId)
     THEN /\ last' = Call("executeProjectPlan", projectId, "Project not found")
          /\ UNCHANGED <<heap, executions>>
     ELSE IF FindPlanFor(plans, projectId) = 0
     THEN /\ last' = Call("executeProjectPlan", projectId, "No plan found for project")
          /\ UNCHANGED <<heap, executions>>
     ELSE LET ref == projects[MapIndex(projects, projectId)].ref
              plan == plans[FindPlanFor(plans, projectId)].val
          IN /\ Len(executions) < MaxExec
             /\ heap' = [heap EXCEPT ![ref].status = "executing"]
             /\ executions' = Append(executions,
                  [pid |-> projectId, ref |-> ref, plan |-> plan.id,
                   start |-> now])
             /\ last' = Call("executeProjectPlan.await", projectId, "")
  /\ UNCHANGED <<now, isShutdown, agents, projects, plans, plannerPlans, templates, activeSessions>>

\* the rest of executeProjectPlan that returns without writing the status
executeProjectPlanEnd_KeepsStatus(i) ==
  /\ i \in 1..Len(executions)
  /\ now >= executions[i].start + ExecDelay
  /\ last' = Call("executeProjectPlan", executions[i].pid, "")
  /\ executions' = SubSeq(executions, 1, i - 1) \o SubSeq(executions, i + 1, Len(executions))
  /\ UNCHANGED <<now, isShutdown, agents, heap, projects, plans, plannerPlans, templates, activeSessions>>

\* executeProjectPlan after its await: the timer fired, status = 'completed'
executeProjectPlanEnd(i) ==
  /\ i \in 1..Len(executions)
  /\ now >= executions[i].start + ExecDelay
  /\ LET e == executions[i]
     IN /\ heap' = [heap EXCEPT ![e.ref].status = "completed"]
        /\ last' = Call("executeProjectPlan", e.pid, "")
  /\ executions' = SubSeq(executions, 1, i - 1) \o SubSeq(executions, i + 1, Len(executions))
  /\ UNCHANGED <<now, isShutdown, agents, projects, plans, plannerPlans, templates, activeSessions>>

\* shutdown that flips the flag instead of setting it
shutdown_Toggle ==
  /\ isShutdown' = ~isShutdown
  /\ agents' = <<>>
  /\ projects' = <<>>
  /\ plans' = <<>>
  /\ last' = CallFrom("shutdown", UnknownId, "", last.op)
  /\ UNCHANGED <<now, heap, executions, plannerPlans, templates, activeSessions>>

shutdown ==
  /\ isShutdown' = TRUE
  /\ agents' = <<>>
  /\ projects' = <<>>
  /\ plans' = <<>>
  /\ last' = CallFrom("shutdown", UnknownId, "", last.op)
  /\ UNCHANGED <<now, heap, executions, plannerPlans, templates, activeSessions>>

\* the report of getSystemHealth; process.uptime() is the time since the
\* process started, here the clock reading
SystemHealth ==
  [status |-> IF isShutdown THEN "shutdown" ELSE "healthy",
   agents |-> Len(agents),
   projects |-> Len(projects),
   plans |-> Len(plans),
   uptime |-> now]

\* getSystemHealth that counts every project ever created
getSystemHealth_CountsHeap ==
  /\ last' = CallRet("getSystemHealth", UnknownId, "", last.op,
                     [SystemHealth EXCEPT !.projects = Len(heap)])
  /\ UNCHANGED <<now, orchVars, plannerPlans, templates, activeSessions>>

getSystemHealth ==
  /\ last' = CallRet("getSystemHealth", UnknownId, "", last.op, SystemHealth)
  /\ UNCHANGED <<now, orchVars, plannerPlans, templates, activeSessions>>

\* every Orchestrator operation but shutdown, for projects of the given types
Lifecycle(types) ==
  \/ Tick
  \/ \E agent \in AgentInputs : registerAgent(agent)
  \/ \E name \in NameInputs, type \in types : createProject(name, type)
  \/ \E projectId \in IdInputs : startProject(projectId)
  \/ \E projectId \in IdInputs : stopProject(projectId)
  \/ \E projectId \in IdInputs : generateExecutionPlan(projectId)
  \/ \E projectId \in IdInputs : executeProjectPlanBegin(projectId)
  \/ \E i \in 1..MaxExec : executeProjectPlanEnd(i)

Next ==
  \/ Lifecycle(TypeInputs)
  \/ shutdown

Spec == Init /\ [][Next]_vars

\* the clock reaches the reading at which the 2000 ms timer of a suspended
\* executeProjectPlan call fires
executeProjectPlanTimer(i) ==
  /\ i \in 1..Len(executions)
  /\ now < executions[i].start + ExecDelay
  /\ now' = executions[i].start + ExecDelay
  /\ UNCHANGED <<orchVars, last, plannerPlans, templates, activeSessions>>

\* plan execution from its start to its return: one project gets plans, is
\* executed during the first milliseconds and may be stopped meanwhile
ExecTypeInputs == {"website"}

NextExecution ==
  \/ TickBy(1)
  \/ \E agent \in AgentInputs : registerAgent(agent)
  \/ \E name \in NameInputs, type \in ExecTypeInputs :
        heap = <<>> /\ createProject(name, type)
  \/ \E projectId \in IdInputs : generateExecutionPlan(projectId)
  \/ \E projectId \in IdInputs : stopProject(projectId)
  \/ \E projectId \in IdInputs : now <= MaxMs /\ executeProjectPlanBegin(projectId)
  \/ \E i \in 1..MaxExec : executeProjectPlanTimer(i)
  \/ \E i \in 1..MaxExec : executeProjectPlanEnd(i)

\* the timer of a suspended call fires and the call is resumed
SpecExecution ==
  /\ Init /\ [][NextExecution]_vars
  /\ WF_vars(\E i \in 1..MaxExec : executeProjectPlanTimer(i))
  /\ \A i \in 1..MaxExec : WF_vars(executeProjectPlanEnd(i))

\* plan generation: projects are created, the planner is registered, plans are
\* requested, the registries are cleared
NextGenerate ==
  \/ TickBy(1)
  \/ \E agent \in AgentInputs : registerAgent(agent)
  \/ \E name \in NameInputs, type \in TypeInputs : createProject(name, type)
  \/ \E projectId \in IdInputs : generateExecutionPlan(projectId)
  \/ shutdown

SpecGenerate == Init /\ [][NextGenerate]_vars

\* shutting down and reporting health, with registries that have content
NextHealth ==
  \/ TickBy(1)
  \/ \E agent \in AgentInputs : registerAgent(agent)
  \/ \E name \in NameInputs, type \in TypeInputs : createProject(name, type)
  \/ \E projectId \in IdInputs : generateExecutionPlan(projectId)
  \/ shutdown
  \/ getSystemHealth

SpecHealth == Init /\ [][NextHealth]_vars

\* the agent registry on its own
NextRegistry ==
  \/ \E agent \in RegistryInputs : registerAgent(agent)
  \/ \E name \in LookupInputs : getAgent(name)
  \/ getAllAgents
  \/ shutdown

SpecRegistry == Init /\ [][NextRegistry]_vars

\* POST /projects: the transport's check of the request body, then createProject
CreateNameInputs == {"", "app"}
CreateTypeInputs == {"website", "mobile", ""}

postProjects(name, type) ==
  IF name = "" \/ type = ""
  THEN /\ last' = Call("POST /projects", UnknownId, "Name and type are required")
       /\ UNCHANGED <<now, orchVars, plannerPlans, templates, activeSessions>>
  ELSE createProject(name, type)

\* project creation, called directly and through the transport
NextCreate ==
  \/ TickBy(1)
  \/ \E name \in CreateNameInputs, type \in CreateTypeInputs : createProject(name, type)
  \/ \E name \in CreateNameInputs, type \in CreateTypeInputs : postProjects(name, type)

SpecCreate == Init /\ [][NextCreate]_vars

\* starting and stopping projects, with executions begun on them; one plan
\* request is answered with a plan or refused
NextStart ==
  \/ TickBy(1)
  \/ \E agent \in AgentInputs : registerAgent(agent)
  \/ \E name \in NameInputs : createProject(name, "website")
  \/ \E projectId \in IdInputs : startProject(projectId)
  \/ \E projectId \in IdInputs : stopProject(projectId)
  \/ \E projectId \in IdInputs : plans = <<>> /\ generateExecutionPlan(projectId)
  \/ \E projectId \in IdInputs : executeProjectPlanBegin(projectId)

SpecStart == Init /\ [][NextStart]_vars

\* -------------------------------------------------- PlannerAgent operations
\* requirement maps: key -> value, the values "true"/"false" standing for the
\* booleans and every other string for itself
ReqHas(requirements, k) == k \in DOMAIN requirements

\* shouldIncludeStep that asks only whether the key is present
shouldIncludeStep_NoValueCheck(step, requirements) ==
  IF step.required THEN TRUE
  ELSE IF step.id = TId("setup_cms") THEN ReqHas(requirements, "cms")
  ELSE IF step.id = TId("setup_monitoring") THEN ReqHas(requirements, "monitoring")
  ELSE TRUE

shouldIncludeStep(step, requirements) ==
  IF step.required THEN TRUE
  ELSE IF step.id = TId("setup_cms")
       THEN ReqHas(requirements, "cms") /\ requirements["cms"] = "true"
  ELSE IF step.id = TId("setup_monitoring")
       THEN ReqHas(requirements, "monitoring") /\ requirements["monitoring"] = "true"
  ELSE TRUE

\* adjustDuration that drops the fraction instead of rounding
adjustDuration_Truncates(step, requirements) ==
  LET duration == step.estimatedDuration
  IN IF ReqHas(requirements, "complexity") /\ requirements["complexity"] = "high"
       THEN (duration * 3) \div 2
     ELSE IF ReqHas(requirements, "complexity") /\ requirements["complexity"] = "low"
       THEN (duration * 8) \div 10
     ELSE duration

\* Math.round(duration * 1.5), Math.round(duration * 0.8), Math.round(duration)
adjustDuration(step, requirements) ==
  LET duration == step.estimatedDuration
  IN IF ReqHas(requirements, "complexity") /\ requirements["complexity"] = "high"
       THEN (duration * 3 + 1) \div 2
     ELSE IF ReqHas(requirements, "complexity") /\ requirements["complexity"] = "low"
       THEN (duration * 8 + 5) \div 10
     ELSE duration

RECURSIVE customizeFrom(_, _, _, _)
customizeFrom(template, i, requirements, ts) ==
  IF i > Len(template) THEN <<>>
  ELSE LET step == template[i]
           rest == customizeFrom(template, i + 1, requirements, ts)
       IN IF shouldIncludeStep(step, requirements)
          THEN <<[step EXCEPT !.id = StepId(step.id.base, ts),
                              !.estimatedDuration = adjustDuration(step, requirements)]>>
               \o rest
          ELSE rest

customizeSteps(template, requirements, ts) == customizeFrom(template, 1, requirements, ts)

RECURSIVE calculateTotalDuration(_)
calculateTotalDuration(steps) ==
  IF steps = <<>> THEN 0
  ELSE Head(steps).estimatedDuration + calculateTotalDuration(Tail(steps))

\* the plan createPlan builds from a template
NewPlan(template, projectId, projectType, requirements) ==
  LET steps == customizeSteps(template, requirements, now)
  IN [id |-> [pid |-> projectId, ts |-> now],
      projectId |-> projectId,
      projectType |-> projectType,
      steps |-> steps,
      status |-> "draft",
      createdAt |-> now,
      updatedAt |-> now,
      estimatedDuration |-> calculateTotalDuration(steps),
      requirements |-> requirements]

\* this.plans.set(plan.id, plan) and the return, with room for maxPlans plans
StorePlan(maxPlans, plan) ==
  /\ MapHas(plannerPlans, plan.id) \/ Len(plannerPlans) < maxPlans
  /\ plannerPlans' = MapSet(plannerPlans, plan.id, [key |-> plan.id, val |-> plan])
  /\ last' = CallRet("createPlan",
                     [projectId |-> plan.projectId, projectType |-> plan.projectType],
                     "", "none", plan)

\* createPlan that plans a type without a template as a plan without steps
createPlanWithin_NoTemplateCheck(maxPlans, projectId, projectType, requirements) ==
  /\ LET template == IF MapHas(templates, projectType)
                     THEN templates[MapIndex(templates, projectType)].val ELSE <<>>
     IN StorePlan(maxPlans, NewPlan(template, projectId, projectType, requirements))
  /\ UNCHANGED <<now, orchVars, templates, activeSessions>>

\* createPlan with room for maxPlans stored plans
createPlanWithin(maxPlans, projectId, projectType, requirements) ==
  /\ IF ~MapHas(templates, projectType)
     THEN /\ last' = Call("createPlan",
                          [projectId |-> projectId, projectType |-> projectType],
                          "No template found for project type")
          /\ UNCHANGED plannerPlans
     ELSE LET template == templates[MapIndex(templates, projectType)].val
          IN StorePlan(maxPlans, NewPlan(template, projectId, projectType, requirements))
  /\ UNCHANGED <<now, orchVars, templates, activeSessions>>

\* createPlan whose customisation writes the new id and duration into the
\* template's own step objects instead of into copies
createPlan_CustomizesInPlace(projectId, projectType, requirements) ==
  /\ IF ~MapHas(templates, projectType)
     THEN /\ last' = Call("createPlan",
                          [projectId |-> projectId, projectType |-> projectType],
                          "No template found for project type")
          /\ UNCHANGED <<plannerPlans, templates>>
     ELSE LET template == templates[MapIndex(templates, projectType)].val
              written == [i \in 1..Len(template) |->
                            IF shouldIncludeStep(template[i], requirements)
                            THEN [template[i] EXCEPT
                                    !.id = StepId(template[i].id.base, now),
                                    !.estimatedDuration = adjustDuration(template[i], requirements)]
                            ELSE template[i]]
          IN /\ StorePlan(MaxPlannerPlans, NewPlan(template, projectId, projectType, requirements))
             /\ templates' = MapSet(templates, projectType,
                                    [key |-> projectType, val |-> written])
  /\ UNCHANGED <<now, orchVars, activeSessions>>

createPlan(projectId, projectType, requirements) ==
  createPlanWithin(MaxPlannerPlans, projectId, projectType, requirements)

\* { ...plan, ...updates, updatedAt: new Date() }
\* the merge without the new updatedAt
Merge_KeepsUpdatedAt(plan, updates) ==
  [f \in DOMAIN plan |-> IF f \in DOMAIN updates THEN updates[f] ELSE plan[f]]

Merge(plan, updates) ==
  [f \in DOMAIN plan |->
     IF f = "updatedAt" THEN now
     ELSE IF f \in DOMAIN updates THEN updates[f]
     ELSE plan[f]]

\* the state change of updatePlan, shared by approvePlan and addStep
UpdatePlanAs(op, planId, updates) ==
  IF ~MapHas(plannerPlans, planId)
  THEN /\ last' = Call(op, planId, "Plan not found")
       /\ UNCHANGED plannerPlans
  ELSE LET plan == plannerPlans[MapIndex(plannerPlans, planId)].val
           updatedPlan == Merge(plan, updates)
       IN /\ plannerPlans' = MapSet(plannerPlans, planId, [key |-> planId, val |-> updatedPlan])
          /\ last' = CallRet(op, planId, "", "none", updatedPlan)

updatePlan(planId, updates) ==
  /\ UpdatePlanAs("updatePlan", planId, updates)
  /\ UNCHANGED <<now, orchVars, templates, activeSessions>>

approvePlan(planId) ==
  /\ UpdatePlanAs("approvePlan", planId, [status |-> "approved"])
  /\ UNCHANGED <<now, orchVars, templates, activeSessions>>

addStep(planId, step) ==
  /\ IF ~MapHas(plannerPlans, planId)
     THEN /\ last' = Call("addStep", planId, "Plan not found")
          /\ UNCHANGED plannerPlans
     ELSE LET plan == plannerPlans[MapIndex(plannerPlans, planId)].val
              updatedSteps == Append(plan.steps, step)
          IN /\ Len(plan.steps) < MaxSteps
             /\ UpdatePlanAs("addStep", planId, [steps |-> updatedSteps])
  /\ UNCHANGED <<now, orchVars, templates, activeSessions>>

\* inputs of the Planner's operations
PlannerPidInputs == {0, 1}
PlannerTypeInputs == ProjectType \cup {"mobile"}
ReqInputs == { <<>>, [cms |-> "true"], [complexity |-> "high"] }
PlanIdInputs == Keys(plannerPlans) \cup {NoPlanId}
UpdateInputs == {[status |-> "draft"], [status |-> "completed"], [estimatedDuration |-> 0]}
StepInputs ==
  { [TStep("custom", "testing", <<>>, 15, FALSE, ord) EXCEPT !.status = st] :
      ord \in {1, 11}, st \in {"undefined"} }

\* requirement maps for plan creation on its own: each known key with the
\* values the code tells apart and one it does not
CreateReqInputs ==
  { <<>>,
    [cms |-> "true"], [cms |-> "false"], [cms |-> "yes"],
    [monitoring |-> "true"], [monitoring |-> "false"],
    [complexity |-> "high"], [complexity |-> "low"], [complexity |-> "medium"] }

CreatePidInputs == {0}

NextCreatePlan ==
  \/ TickBy(1)
  \/ \E projectId \in CreatePidInputs, projectType \in PlannerTypeInputs,
        requirements \in CreateReqInputs :
          createPlanWithin(MaxCreatedPlans, projectId, projectType, requirements)

SpecCreatePlan == Init /\ [][NextCreatePlan]_vars

\* the Planner's plan store on its own: one project, a type with a template
\* and one without, one update and one custom step
StorePidInputs == {0}
StoreTypeInputs == {"automation", "mobile"}
StoreReqInputs == { <<>> }
StoreUpdateInputs == {[status |-> "completed"]}
StoreStepInputs == {TStep("custom", "testing", <<>>, 15, FALSE, 11)}

NextPlanStore ==
  \/ TickBy(1)
  \/ \E projectId \in StorePidInputs, projectType \in StoreTypeInputs,
        requirements \in StoreReqInputs :
          createPlanWithin(MaxPlannerPlans, projectId, projectType, requirements)
  \/ \E planId \in PlanIdInputs, updates \in StoreUpdateInputs : updatePlan(planId, updates)
  \/ \E planId \in PlanIdInputs : approvePlan(planId)
  \/ \E planId \in PlanIdInputs, step \in StoreStepInputs : addStep(planId, step)

SpecPlanStore == Init /\ [][NextPlanStore]_vars

\* the Planner's templates under its operations: one project, both types with
\* a template, requirements that keep and that scale the template durations
TemplateReqInputs == { <<>>, [complexity |-> "high"] }

NextTemplates ==
  \/ TickBy(1)
  \/ \E projectId \in StorePidInputs, projectType \in ProjectType,
        requirements \in TemplateReqInputs :
          createPlan(projectId, projectType, requirements)
  \/ \E planId \in PlanIdInputs, updates \in StoreUpdateInputs : updatePlan(planId, updates)
  \/ \E planId \in PlanIdInputs : approvePlan(planId)
  \/ \E planId \in PlanIdInputs, step \in StoreStepInputs : addStep(planId, step)

SpecTemplates == Init /\ [][NextTemplates]_vars

\* the plan store under updates of any Partial<ProjectPlan>: a status, and
\* the identity fields a caller may pass as well
IdentityUpdateInputs ==
  { [status |-> "completed"], [projectId |-> 1], [id |-> [pid |-> 1, ts |-> 0]] }

NextPlanIdentity ==
  \/ TickBy(1)
  \/ \E projectId \in StorePidInputs, projectType \in ProjectType,
        requirements \in StoreReqInputs :
          createPlan(projectId, projectType, requirements)
  \/ \E planId \in PlanIdInputs, updates \in IdentityUpdateInputs : updatePlan(planId, updates)
  \/ \E planId \in PlanIdInputs : approvePlan(planId)
  \/ \E planId \in PlanIdInputs, step \in StoreStepInputs : addStep(planId, step)

SpecPlanIdentity == Init /\ [][NextPlanIdentity]_vars

NextPlanner ==
  \/ TickBy(1)
  \/ \E projectId \in PlannerPidInputs, projectType \in PlannerTypeInputs,
        requirements \in ReqInputs : createPlan(projectId, projectType, requirements)
  \/ \E planId \in PlanIdInputs, updates \in UpdateInputs : updatePlan(planId, updates)
  \/ \E planId \in PlanIdInputs : approvePlan(planId)
  \/ \E planId \in PlanIdInputs, step \in StepInputs : addStep(planId, step)

SpecPlanner == Init /\ [][NextPlanner]_vars

\* ============================================================= Executor
StepType == {"setup", "planning", "development", "testing", "deployment",
             "integration", "infrastructure", "analysis"}

\* the setTimeout delay of the execute<Type>Step method of a step type
StepDelay(type) ==
  CASE type = "setup" -> 1000
    [] type = "planning" -> 2000
    [] type = "development" -> 5000
    [] type = "testing" -> 3000
    [] type = "deployment" -> 4000
    [] type = "integration" -> 2500
    [] type = "infrastructure" -> 3500
    [] type = "analysis" -> 1500

\* spectreLogger.success / spectreLogger.failure: the event is recorded
Emit(events, action) == Append(events, action)

\* steps handed to the Executor: one of each type and one of a type outside
\* the enumeration, pending
ExecStepInputs ==
  { [TStep("work", type, <<>>, 10, TRUE, 1) EXCEPT !.status = "pending"] :
      type \in StepType \cup {"research"} }
ExecPidInputs == {0}

\* a call suspended in `await new Promise(resolve => setTimeout(resolve, d))`
\* is kept in `last` with op "executeStep.await": the step object, the events
\* emitted so far and the clock reading at which the timer fires
Awaiting == last.op = "executeStep.await"

\* the catch branch: the failure event and `return false`
executeStepCatch(step, events) ==
  [result |-> FALSE, step |-> step, due |-> now,
   events |-> Emit(events, "step_execution_failed")]

\* executeStep that records the outcome on the step
executeStep_WritesStatus(step, projectId) ==
  /\ ~Awaiting
  /\ now <= MaxStepClock
  /\ LET events == Emit(<<>>, "step_execution_started")
     IN IF step.type \in StepType
        THEN last' = CallRet("executeStep.await", step, "", "none",
                             [result |-> FALSE, step |-> [step EXCEPT !.status = "in_progress"],
                              due |-> now + StepDelay(step.type), events |-> events])
        ELSE last' = CallRet("executeStep", step, "", "none",
                             executeStepCatch([step EXCEPT !.status = "failed"], events))
  /\ UNCHANGED <<now, orchVars, plannerPlans, templates, activeSessions>>

\* executeStep up to the timer of the step type, or to the end when
\* executeStepByType throws "Unknown step type"
executeStep(step, projectId) ==
  /\ ~Awaiting
  /\ now <= MaxStepClock
  /\ LET events == Emit(<<>>, "step_execution_started")
     IN IF step.type \in StepType
        THEN last' = CallRet("executeStep.await", step, "", "none",
                             [result |-> FALSE, step |-> step,
                              due |-> now + StepDelay(step.type), events |-> events])
        ELSE last' = CallRet("executeStep", step, "", "none", executeStepCatch(step, events))
  /\ UNCHANGED <<now, orchVars, plannerPlans, templates, activeSessions>>

\* the clock reaches the reading at which the timer of the suspended call fires
executeStepTimer ==
  /\ Awaiting
  /\ now < last.ret.due
  /\ now' = last.ret.due
  /\ UNCHANGED <<orchVars, last, plannerPlans, templates, activeSessions>>

\* the rest of executeStep after the timer: the event of the step type, the
\* completion event and `return true`
executeStepResume ==
  /\ Awaiting
  /\ now >= last.ret.due
  /\ LET step == last.ret.step
         events == Emit(Emit(last.ret.events, step.type \o "_completed"),
                        "step_execution_completed")
     IN last' = CallRet("executeStep", last.arg, "", "none",
                        [last.ret EXCEPT !.result = TRUE, !.events = events])
  /\ UNCHANGED <<now, orchVars, plannerPlans, templates, activeSessions>>

NextExecutor ==
  \/ \E step \in ExecStepInputs, projectId \in ExecPidInputs : executeStep(step, projectId)
  \/ executeStepTimer
  \/ executeStepResume

\* the timer fires and the suspended call is resumed
SpecExecutor ==
  Init /\ [][NextExecutor]_vars /\ WF_vars(executeStepTimer) /\ WF_vars(executeStepResume)

\* ============================================================= Reviewer
\* a step as the Reviewer reads it: its type and its name, the name as the
\* sequence of its words
RStep(type, name) == [type |-> type, name |-> name, status |-> "completed"]

\* String.prototype.includes for a search string that is one word
Includes(name, word) == \E i \in 1..Len(name) : name[i] = word

\* Math.max(0, score)
Max0(score) == IF score < 0 THEN 0 ELSE score

\* values of Math.random() * 100: below, at and above every threshold
SignalInputs == {0, 69, 70, 74, 75, 79, 80, 84, 85, 89, 90, 99}

\* one check: the issue and the deduction when the signal is below the threshold
Deduct(review, applies, signal, threshold, issue, points) ==
  IF applies /\ signal < threshold
  THEN [score |-> review.score - points, issues |-> Append(review.issues, issue)]
  ELSE review

Clamp(review) == [review EXCEPT !.score = Max0(review.score)]

NoIssues == [score |-> 100, issues |-> <<>>]

reviewDevelopmentStep(step, codeQuality, securityScore) ==
  Clamp(Deduct(Deduct(NoIssues,
                      Includes(step.name, "Backend") \/ Includes(step.name, "Frontend"),
                      codeQuality, 70, "Code quality below standards", 20),
               Includes(step.name, "API") \/ Includes(step.name, "Backend"),
               securityScore, 80, "Security vulnerabilities detected", 15))

\* reviewTestingStep with the points of its two checks exchanged
reviewTestingStep_SwappedPoints(step, testCoverage, testQuality) ==
  Clamp(Deduct(Deduct(NoIssues, TRUE, testCoverage, 80, "Insufficient test coverage", 15),
               TRUE, testQuality, 75, "Test quality needs improvement", 25))

reviewTestingStep(step, testCoverage, testQuality) ==
  Clamp(Deduct(Deduct(NoIssues, TRUE, testCoverage, 80, "Insufficient test coverage", 25),
               TRUE, testQuality, 75, "Test quality needs improvement", 15))

reviewDeploymentStep(step, configQuality, envSetup) ==
  Clamp(Deduct(Deduct(NoIssues, TRUE, configQuality, 85, "Deployment configuration issues", 20),
               TRUE, envSetup, 90, "Environment setup incomplete", 10))

reviewIntegrationStep(step, integrationComplete, apiDocs) ==
  Clamp(Deduct(Deduct(NoIssues, TRUE, integrationComplete, 85, "Integration incomplete", 20),
               TRUE, apiDocs, 70, "API documentation missing", 15))

reviewGenericStep(step, completion) ==
  Clamp(Deduct(NoIssues, TRUE, completion, 90, "Step not fully completed", 10))

\* performReview that passes above 80 only
performReview_Above80(step, s1, s2) ==
  LET review == CASE step.type = "development" -> reviewDevelopmentStep(step, s1, s2)
                  [] step.type = "testing" -> reviewTestingStep(step, s1, s2)
                  [] step.type = "deployment" -> reviewDeploymentStep(step, s1, s2)
                  [] step.type = "integration" -> reviewIntegrationStep(step, s1, s2)
                  [] OTHER -> reviewGenericStep(step, s1)
  IN [passed |-> review.score > 80, issues |-> review.issues, score |-> review.score]

\* s1, s2: the values of the Math.random() calls of the checks
performReview(step, s1, s2) ==
  LET review == CASE step.type = "development" -> reviewDevelopmentStep(step, s1, s2)
                  [] step.type = "testing" -> reviewTestingStep(step, s1, s2)
                  [] step.type = "deployment" -> reviewDeploymentStep(step, s1, s2)
                  [] step.type = "integration" -> reviewIntegrationStep(step, s1, s2)
                  [] OTHER -> reviewGenericStep(step, s1)
  IN [passed |-> review.score >= 80, issues |-> review.issues, score |-> review.score]

ReviewStepInputs ==
  { RStep("development", <<"Create", "Backend", "API">>),
    RStep("development", <<"Create", "Frontend", "Interface">>),
    RStep("development", <<"Create", "Automation", "Workflow">>),
    RStep("testing", <<"Test", "Automation">>),
    RStep("deployment", <<"Deploy", "to", "Production">>),
    RStep("integration", <<"Setup", "Integrations">>),
    RStep("setup", <<"Setup", "GitHub", "Repository">>),
    RStep("planning", <<"Design", "System", "Architecture">>),
    RStep("infrastructure", <<"Setup", "Database">>),
    RStep("analysis", <<"Analyze", "Requirements">>),
    RStep("research", <<"Survey">>) }

\* the catch branch of reviewStep is taken only when a check throws, which
\* none does for a step that has a name
reviewStep(step, projectId) ==
  /\ \E s1, s2 \in SignalInputs :
       LET review == performReview(step, s1, s2)
           events == Emit(Emit(<<>>, "step_review_started"),
                          IF review.passed THEN "step_review_passed" ELSE "step_review_failed")
       IN last' = CallRet("reviewStep", step, "", "none",
                          [result |-> review.passed, score |-> review.score,
                           issues |-> review.issues, signals |-> <<s1, s2>>,
                           events |-> events])
  /\ UNCHANGED <<now, orchVars, plannerPlans, templates, activeSessions>>

NextReviewer ==
  \E step \in ReviewStepInputs, projectId \in ExecPidInputs : reviewStep(step, projectId)

SpecReviewer == Init /\ [][NextReviewer]_vars

\* ============================================================ Validator
\* a step as the Validator reads it
VStep(type, name, required) ==
  [type |-> type, name |-> name, required |-> required, status |-> "pending"]

\* the steps that plans handed to the Validator are made of
ValidateStepPool ==
  << VStep("development", <<"Create", "Backend", "API">>, TRUE),
     VStep("development", <<"Create", "Frontend", "Interface">>, TRUE),
     VStep("deployment", <<"Deploy", "to", "Production">>, TRUE),
     VStep("testing", <<"Test", "Automation">>, TRUE),
     VStep("integration", <<"Setup", "Authentication">>, FALSE),
     VStep("planning", <<"Design", "Workflow">>, TRUE),
     VStep("infrastructure", <<"Setup", "Monitoring", "and", "Alerts">>, TRUE),
     VStep("infrastructure", <<"Setup", "Database">>, TRUE) >>

\* the pool's steps with an index in chosen, in the pool's order, those with
\* an index in done completed
RECURSIVE StepsFrom(_, _, _)
StepsFrom(i, chosen, done) ==
  IF i > Len(ValidateStepPool) THEN <<>>
  ELSE IF i \notin chosen THEN StepsFrom(i + 1, chosen, done)
  ELSE <<[ValidateStepPool[i] EXCEPT !.status = IF i \in done THEN "completed" ELSE "pending"]>>
         \o StepsFrom(i + 1, chosen, done)

ValidateTypeInputs == {"website", "automation", "mobile"}

\* the plans of the given types made of pool steps, each pending or completed
ValidatePlanInputs(types) ==
  UNION { { [projectType |-> type, steps |-> StepsFrom(1, chosen, done)] :
              type \in types, done \in SUBSET chosen } :
          chosen \in SUBSET (1..Len(ValidateStepPool)) }

\* one check: score, issue and recommendation when the condition holds;
\* in the validate operators Count is Array.prototype.filter(...).length and
\* Some is Array.prototype.some
Penalty(v, cond, points, issue, recommendation) ==
  IF cond
  THEN [score |-> v.score - points,
        issues |-> Append(v.issues, issue),
        recommendations |-> IF recommendation = "" THEN v.recommendations
                            ELSE Append(v.recommendations, recommendation)]
  ELSE v

NoFindings == [score |-> 100, issues |-> <<>>, recommendations |-> <<>>]

validateWebsite(plan) ==
  LET Count(Test(_)) == Cardinality({i \in 1..Len(plan.steps) : Test(plan.steps[i])})
      Some(Test(_)) == \E i \in 1..Len(plan.steps) : Test(plan.steps[i])
      IsRequired(st) == st.required
      IsDone(st) == st.required /\ st.status = "completed"
      missing == Count(IsRequired) - Count(IsDone)
      Backend(st) == Includes(st.name, "Backend")
      Frontend(st) == Includes(st.name, "Frontend")
      Deployment(st) == Includes(st.name, "Deploy")
      Testing(st) == st.type = "testing"
      Security(st) == Includes(st.name, "Security") \/ Includes(st.name, "Authentication")
      v1 == Penalty(NoFindings, missing > 0, missing * 10, "required steps not completed", "")
      v2 == Penalty(v1, ~Some(Backend), 20,
                    "Backend implementation missing", "Implement backend API")
      v3 == Penalty(v2, ~Some(Frontend), 20,
                    "Frontend implementation missing", "Implement frontend interface")
      v4 == Penalty(v3, ~Some(Deployment), 15,
                    "Deployment configuration missing", "Configure deployment pipeline")
      v5 == Penalty(v4, ~Some(Testing), 10,
                    "Testing not implemented", "Add comprehensive testing")
      v6 == Penalty(v5, ~Some(Security), 15,
                    "Security measures not implemented", "Implement security measures")
  IN [v6 EXCEPT !.score = Max0(v6.score)]

validateAutomation(plan) ==
  LET Count(Test(_)) == Cardinality({i \in 1..Len(plan.steps) : Test(plan.steps[i])})
      Some(Test(_)) == \E i \in 1..Len(plan.steps) : Test(plan.steps[i])
      Workflow(st) == Includes(st.name, "Workflow")
      Integration(st) == st.type = "integration"
      Monitoring(st) == Includes(st.name, "Monitoring")
      Testing(st) == st.type = "testing"
      ErrorHandling(st) == Includes(st.name, "Error") \/ Includes(st.name, "Recovery")
      v1 == Penalty(NoFindings, ~Some(Workflow), 25,
                    "Workflow design missing", "Design automation workflow")
      v2 == Penalty(v1, ~Some(Integration), 20,
                    "System integrations missing", "Configure system integrations")
      v3 == Penalty(v2, ~Some(Monitoring), 15,
                    "Monitoring not configured", "Setup monitoring and alerts")
      v4 == Penalty(v3, ~Some(Testing), 15,
                    "Automation testing missing", "Add automation testing")
      v5 == Penalty(v4, ~Some(ErrorHandling), 10,
                    "Error handling not implemented", "Implement error handling")
  IN [v5 EXCEPT !.score = Max0(v5.score)]

validateGeneric(plan) ==
  LET Count(Test(_)) == Cardinality({i \in 1..Len(plan.steps) : Test(plan.steps[i])})
      Some(Test(_)) == \E i \in 1..Len(plan.steps) : Test(plan.steps[i])
      IsDone(st) == st.status = "completed"
      Planning(st) == st.type = "planning"
      incomplete == Len(plan.steps) - Count(IsDone)
      v1 == Penalty(NoFindings, incomplete > 0, incomplete * 5,
                    "steps not completed", "Complete all planned steps")
      v2 == Penalty(v1, ~Some(Planning), 10,
                    "Planning phase missing", "Include planning phase")
  IN [v2 EXCEPT !.score = Max0(v2.score)]

\* performValidation that passes from 80 on, as the Reviewer does
performValidation_From80(plan) ==
  LET v == CASE plan.projectType = "website" -> validateWebsite(plan)
             [] plan.projectType = "automation" -> validateAutomation(plan)
             [] OTHER -> validateGeneric(plan)
  IN [valid |-> v.score >= 80, issues |-> v.issues, score |-> v.score,
      recommendations |-> v.recommendations]

\* the score is a whole number, which Math.round leaves as it is
performValidation(plan) ==
  LET v == CASE plan.projectType = "website" -> validateWebsite(plan)
             [] plan.projectType = "automation" -> validateAutomation(plan)
             [] OTHER -> validateGeneric(plan)
  IN [valid |-> v.score >= 85, issues |-> v.issues, score |-> v.score,
      recommendations |-> v.recommendations]

\* a validateProject call about to be made for each plan
InitValidator ==
  /\ now = 0
  /\ isShutdown = FALSE
  /\ agents = <<>>
  /\ heap = <<>>
  /\ projects = <<>>
  /\ plans = <<>>
  /\ executions = <<>>
  /\ plannerPlans = <<>>
  /\ templates = initializeTemplates
  /\ activeSessions = <<>>
  /\ last \in {CallFrom("validateProject.call", plan, "", "none") : plan \in ValidatePlanInputs(ValidateTypeInputs)}

\* the catch branch of validateProject is taken only when a check throws,
\* which none does for a plan whose steps have names
validateProject ==
  /\ last.op = "validateProject.call"
  /\ LET plan == last.arg
         validation == performValidation(plan)
         events == Emit(Emit(<<>>, "project_validation_started"),
                        IF validation.valid THEN "project_validation_passed"
                        ELSE "project_validation_failed")
     IN last' = CallRet("validateProject", plan, "", "none",
                        [valid |-> validation.valid, score |-> validation.score,
                         issues |-> validation.issues,
                         recommendations |-> validation.recommendations,
                         plan |-> plan, events |-> events])
  /\ UNCHANGED <<now, orchVars, plannerPlans, templates, activeSessions>>

NextValidator == validateProject

SpecValidator == InitValidator /\ [][NextValidator]_vars

\* ============================================================ transport
\* the routes POST /projects/:id/start, /stop, /plan and /execute call the
\* Orchestrator's operation and answer when its promise settles
postStart(projectId) == startProject(projectId)
postStop(projectId) == stopProject(projectId)
postPlan(projectId) == generateExecutionPlan(projectId)
postExecute(projectId) == executeProjectPlanBegin(projectId)
postExecuteSettled(i) == executeProjectPlanEnd(i)

RouteOps == {"POST /projects", "createProject", "startProject", "stopProject",
             "generateExecutionPlan", "executeProjectPlan"}

DebugModeInputs == BOOLEAN

\* the answer of a route to the request whose call record is call: the 400 of
\* POST /projects, the .then branch, or the .catch branch, which is the same
\* in every route and does not read debugMode
RouteResponse(call, debugMode) ==
  IF call.op = "POST /projects"
  THEN [status |-> 400, success |-> FALSE, error |-> call.err]
  ELSE IF call.err # ""
  THEN [status |-> 500, success |-> FALSE, error |-> call.err]
  ELSE [status |-> IF call.op = "createProject" THEN 201 ELSE 200,
        success |-> TRUE, error |-> ""]

\* the error handler middleware, for an error passed on to Express
ErrorHandlerResponse(message, debugMode) ==
  [status |-> 500, error |-> "Internal Server Error",
   message |-> IF debugMode THEN message ELSE "Something went wrong"]

NextTransport ==
  \/ Tick
  \/ \E agent \in AgentInputs : registerAgent(agent)
  \/ \E name \in CreateNameInputs, type \in {"website", ""} : postProjects(name, type)
  \/ \E projectId \in IdInputs : postStart(projectId)
  \/ \E projectId \in IdInputs : postStop(projectId)
  \/ \E projectId \in IdInputs : postPlan(projectId)
  \/ \E projectId \in IdInputs : postExecute(projectId)
  \/ \E i \in 1..MaxExec : postExecuteSettled(i)

SpecTransport == Init /\ [][NextTransport]_vars

\* ========================================================== Questioner
\* A question is the text at a position of a pattern; null is no question.
QuestionsPerPattern == 10
Question(id, n) == [pattern |-> id, n |-> n]
Null == Question("null", 0)

Pattern(id, type, required, order) ==
  [id |-> id, type |-> type,
   questions |-> [n \in 1..QuestionsPerPattern |-> Question(id, n)],
   required |-> required, order |-> order]

\* QuestionerAgent.questionPatterns as the constructor fills it
initializeDefaultPatterns ==
  << [key |-> "website_basic", val |-> Pattern("website_basic", "website", TRUE, 1)],
     [key |-> "automation_basic", val |-> Pattern("automation_basic", "automation", TRUE, 1)],
     [key |-> "website_advanced", val |-> Pattern("website_advanced", "website", FALSE, 2)],
     [key |-> "automation_advanced", val |-> Pattern("automation_advanced", "automation", FALSE, 2)] >>

\* Array.prototype.sort((a, b) => a.order - b.order), which is stable
RECURSIVE InsertByOrder(_, _)
InsertByOrder(sorted, pattern) ==
  IF sorted = <<>> THEN <<pattern>>
  ELSE IF pattern.order < Head(sorted).order THEN <<pattern>> \o sorted
  ELSE <<Head(sorted)>> \o InsertByOrder(Tail(sorted), pattern)

RECURSIVE SortByOrder(_)
SortByOrder(patterns) ==
  IF patterns = <<>> THEN <<>>
  ELSE InsertByOrder(SortByOrder(SubSeq(patterns, 1, Len(patterns) - 1)),
                     patterns[Len(patterns)])

IsOfType(pattern, projectType) == pattern.type = projectType

getPatternsForType(projectType) ==
  LET ofType == SelectSeq(MapValues(initializeDefaultPatterns),
                          LAMBDA pattern : IsOfType(pattern, projectType))
  IN SortByOrder(ofType)

\* createdAt and updatedAt of a session are timestamps no operation reads and
\* are left out of the session record; currentPattern counts from 0
startSession(projectId, projectType) ==
  /\ LET session == [id |-> [pid |-> projectId, ts |-> now],
                     projectId |-> projectId,
                     projectType |-> projectType,
                     currentPattern |-> 0,
                     answers |-> <<>>,
                     patterns |-> getPatternsForType(projectType),
                     status |-> "active"]
     IN /\ MapHas(activeSessions, session.id) \/ Len(activeSessions) < MaxSessions
        /\ activeSessions' = MapSet(activeSessions, session.id,
                                    [key |-> session.id, val |-> session])
        /\ last' = CallRet("startSession", session.id, "", "none", session)
  /\ UNCHANGED <<now, orchVars, plannerPlans, templates>>

\* session.answers.get(currentPattern.id)?.length || 0, with every answer of
\* the session counted
currentQuestionIndex_AllAnswers(session, currentPattern) ==
  LET RECURSIVE Total(_)
      Total(i) == IF i > Len(session.answers) THEN 0
                  ELSE Len(session.answers[i].val) + Total(i + 1)
  IN Total(1)

currentQuestionIndex(session, currentPattern) ==
  IF MapHas(session.answers, currentPattern.id)
  THEN Len(MapGet(session.answers, currentPattern.id))
  ELSE 0

\* the body of getNextQuestion on a session, the recursive call included:
\* the session as the call leaves it and the value it returns
RECURSIVE NextQuestionOf(_)
NextQuestionOf(session) ==
  IF session.currentPattern >= Len(session.patterns)
  THEN [session |-> session, question |-> Null]
  ELSE LET currentPattern == session.patterns[session.currentPattern + 1]
           index == currentQuestionIndex(session, currentPattern)
       IN IF index >= Len(currentPattern.questions)
          THEN NextQuestionOf([session EXCEPT !.currentPattern = @ + 1])
          ELSE [session |-> session, question |-> currentPattern.questions[index + 1]]

getNextQuestion(sessionId) ==
  /\ IF ~MapHas(activeSessions, sessionId)
     THEN /\ last' = Call("getNextQuestion", sessionId, "Session not found")
          /\ UNCHANGED activeSessions
     ELSE LET next == NextQuestionOf(MapGet(activeSessions, sessionId))
          IN /\ activeSessions' = MapSet(activeSessions, sessionId,
                                         [key |-> sessionId, val |-> next.session])
             /\ last' = CallRet("getNextQuestion", sessionId, "", "none", next.question)
  /\ UNCHANGED <<now, orchVars, plannerPlans, templates>>

submitAnswer(sessionId, answer) ==
  /\ IF ~MapHas(activeSessions, sessionId)
     THEN /\ last' = Call("submitAnswer", sessionId, "Session not found")
          /\ UNCHANGED activeSessions
     ELSE LET session == MapGet(activeSessions, sessionId)
          IN IF session.currentPattern >= Len(session.patterns)
             THEN /\ last' = Call("submitAnswer", sessionId, "No active pattern for session")
                  /\ UNCHANGED activeSessions
             ELSE LET currentPattern == session.patterns[session.currentPattern + 1]
                      stored == IF MapHas(session.answers, currentPattern.id)
                                THEN MapGet(session.answers, currentPattern.id) ELSE <<>>
                      patternAnswers == Append(stored, answer)
                      answered == [session EXCEPT !.answers =
                                     MapSet(@, currentPattern.id,
                                            [key |-> currentPattern.id, val |-> patternAnswers])]
                      updated == IF Len(patternAnswers) >= Len(currentPattern.questions)
                                 THEN [answered EXCEPT !.currentPattern = @ + 1]
                                 ELSE answered
                  IN /\ activeSessions' = MapSet(activeSessions, sessionId,
                                                 [key |-> sessionId, val |-> updated])
                     /\ last' = Call("submitAnswer", sessionId, "")
  /\ UNCHANGED <<now, orchVars, plannerPlans, templates>>

\* the returned map is a copy of session.answers
completeSession(sessionId) ==
  /\ IF ~MapHas(activeSessions, sessionId)
     THEN /\ last' = Call("completeSession", sessionId, "Session not found")
          /\ UNCHANGED activeSessions
     ELSE LET session == MapGet(activeSessions, sessionId)
          IN /\ activeSessions' = MapSet(activeSessions, sessionId,
                                         [key |-> sessionId,
                                          val |-> [session EXCEPT !.status = "completed"]])
             /\ last' = CallRet("completeSession", sessionId, "", "none", session.answers)
  /\ UNCHANGED <<now, orchVars, plannerPlans, templates>>

\* inputs of the Questioner's operations
SessionPidInputs == {0}
SessionIdInputs == Keys(activeSessions) \cup {NoPlanId}
AnswerInputs == {"yes"}

NextSession ==
  \/ TickBy(1)
  \/ \E projectId \in SessionPidInputs, projectType \in ProjectType :
        startSession(projectId, projectType)
  \/ \E sessionId \in SessionIdInputs : getNextQuestion(sessionId)
  \/ \E sessionId \in SessionIdInputs, answer \in AnswerInputs : submitAnswer(sessionId, answer)
  \/ \E sessionId \in SessionIdInputs : completeSession(sessionId)

SpecSession == Init /\ [][NextSession]_vars

\* ================================================================ claims

\* position of a status in planning < active < executing < completed (0: not in the order)
ProjectRank(st) ==
  CASE st = "planning" -> 1 [] st = "active" -> 2 [] st = "executing" -> 3
    [] st = "completed" -> 4 [] OTHER -> 0

\* position of a plan status in draft < approved < executing < {completed, failed}
PlanRank(st) ==
  CASE st = "draft" -> 1 [] st = "approved" -> 2 [] st = "executing" -> 3 [] OTHER -> 4

\* C1: in every step, a project's status does not move to an earlier status of
\* planning < active < executing < completed (moving into stopped or failed
\* excepted), and does not go from planning straight to completed.
C1_StatusNeverBackward ==
  [][\A i \in 1..Len(heap) :
       LET a == heap[i].status
           b == heap'[i].status
       IN /\ (ProjectRank(a) > 0 /\ ProjectRank(b) > 0) => ProjectRank(b) >= ProjectRank(a)
          /\ ~(a = "planning" /\ b = "completed")]_vars

RequiredStepsCompleted(plan) ==
  \A j \in 1..Len(plan.steps) :
    plan.steps[j].required => plan.steps[j].status = "completed"

\* C3: when executeProjectPlan returns, the plan it ran is completed if every
\* required step is completed and failed otherwise, and the project is
\* completed if the plan is completed and failed otherwise.
C3_ExecutionOutcome ==
  [][\A i \in 1..Len(executions) :
       (executions' = SubSeq(executions, 1, i - 1)
                        \o SubSeq(executions, i + 1, Len(executions))
        /\ MapHas(plans', executions[i].plan))
       => LET e == executions[i]
              plan == plans'[MapIndex(plans', e.plan)].val
          IN /\ plan.status = IF RequiredStepsCompleted(plan) THEN "completed" ELSE "failed"
             /\ heap'[e.ref].status =
                  IF plan.status = "completed" THEN "completed" ELSE "failed"]_vars

\* C5: no approvePlan, updatePlan or addStep call moves the status of a stored
\* plan to an earlier status of draft -> approved -> executing -> {completed,
\* failed} (a createPlan call stores a new plan and is not a move).
C5_PlanStatusMonotonic ==
  [][\A k \in Keys(plannerPlans) \cap Keys(plannerPlans') :
       last'.op \in {"approvePlan", "updatePlan", "addStep"} =>
       PlanRank(plannerPlans'[MapIndex(plannerPlans', k)].val.status)
         >= PlanRank(plannerPlans[MapIndex(plannerPlans, k)].val.status)]_vars

StepsNamed(steps, base) == {j \in 1..Len(steps) : steps[j].id.base = base}

DepBases(step) == {step.dependencies[d].base : d \in 1..Len(step.dependencies)}

\* the steps that `base` depends on, directly or through other steps
RECURSIVE DependsOn(_, _, _)
DependsOn(steps, bases, n) ==
  LET more == bases \cup UNION {DepBases(steps[j]) :
                                  j \in {x \in 1..Len(steps) : steps[x].id.base \in bases}}
  IN IF n = 0 \/ more = bases THEN bases ELSE DependsOn(steps, more, n - 1)

TransitiveDeps(steps, base) ==
  UNION {DependsOn(steps, DepBases(steps[j]), Len(steps)) : j \in StepsNamed(steps, base)}

\* C6: every plan the Orchestrator stored for a website project has the
\* setup_repo step, without dependencies and first in order, and a
\* create_frontend step that depends transitively on setup_database.
C6_GeneratedPlanIsPlannersPlan ==
  \A i \in 1..Len(plans) :
    LET plan == plans[i].val
    IN plan.projectType = "website" =>
         /\ \E j \in StepsNamed(plan.steps, "setup_repo") :
              /\ plan.steps[j].dependencies = <<>>
              /\ \A x \in 1..Len(plan.steps) : plan.steps[x].order >= plan.steps[j].order
         /\ StepsNamed(plan.steps, "create_frontend") # {}
         /\ "setup_database" \in TransitiveDeps(plan.steps, "create_frontend")

\* C7: a generateExecutionPlan call for an unknown project id fails with the
\* project-not-found error, a call for a known project with no 'planner'
\* agent registered fails with the error that names the planner, and a failed
\* call adds no plan and changes no project.
C7_GenerateFailures ==
  [][last'.op = "generateExecutionPlan" =>
       /\ ~MapHas(projects, last'.arg) => last'.err = "Project not found"
       /\ (MapHas(projects, last'.arg) /\ ~MapHas(agents, "planner"))
            => last'.err = "Planner agent not found"
       /\ last'.err # "" => (plans' = plans /\ heap' = heap /\ projects' = projects)]_vars

\* a generateExecutionPlan call was refused for a known project, no planner registered
C7_Witness ==
  /\ last.op = "generateExecutionPlan"
  /\ last.err = "Planner agent not found"
  /\ MapHas(projects, last.arg)
  /\ ~MapHas(agents, "planner")
  /\ plans = <<>>

\* C8: executeProjectPlan resolves, among the plans of its project, the one
\* created last.
C8_RunsMostRecentPlan ==
  [][Len(executions') > Len(executions) =>
       LET e == executions'[Len(executions')]
           chosen == plans[MapIndex(plans, e.plan)].val
       IN \A i \in 1..Len(plans) :
            plans[i].val.projectId = e.pid => plans[i].val.createdAt <= chosen.createdAt]_vars

\* C9: each project has at most one plan of non-terminal status in the
\* Orchestrator's plan store.
C9_OneActivePlan ==
  \A pid \in IdInputs :
    Cardinality({i \in 1..Len(plans) :
                   /\ plans[i].val.projectId = pid
                   /\ plans[i].val.status \notin {"completed", "failed"}}) <= 1

\* C10: a startProject call for a known project in planning or stopped leaves
\* it active and touches no other project; a call for an unknown id fails with
\* the project-not-found error and changes no project.
C10_StartProject ==
  [][last'.op = "startProject" =>
       IF MapHas(projects, last'.arg)
       THEN LET ref == projects[MapIndex(projects, last'.arg)].ref
            IN /\ last'.err = ""
               /\ heap[ref].status \in {"planning", "stopped"} => heap'[ref].status = "active"
               /\ \A i \in 1..Len(heap) : i # ref => heap'[i] = heap[i]
               /\ projects' = projects
       ELSE /\ last'.err = "Project not found"
            /\ heap' = heap
            /\ projects' = projects]_vars

\* a stopped project has been started again while another project exists
C10_Witness ==
  /\ last.op = "startProject"
  /\ last.err = ""
  /\ last.prev = "stopped"
  /\ MapHas(projects, last.arg)
  /\ StatusOf(last.arg) = "active"
  /\ Len(projects) = 2

\* C11: a stopProject call for a known project leaves it stopped exactly when
\* it found it in planning, active or executing; a project found in completed,
\* failed or stopped keeps its status.
C11_StopOnlyNonTerminal ==
  [][(last'.op = "stopProject" /\ now' = now /\ MapHas(projects, last'.arg)) =>
       LET ref == projects[MapIndex(projects, last'.arg)].ref
       IN heap'[ref].status =
            IF heap[ref].status \in {"planning", "active", "executing"}
            THEN "stopped" ELSE heap[ref].status]_vars

\* C12: a createProject call that stores a project was given a non-empty name
\* and a supported type, and the project is stored in planning; a call with an
\* empty name or an unsupported type stores no project.
C12_CreateValidates ==
  [][(last'.op = "createProject" /\ now' = now /\ Len(heap') > Len(heap)) =>
       LET p == heap'[Len(heap')]
       IN /\ p.name # ""
          /\ p.type \in ProjectType
          /\ p.status = "planning"
          /\ MapHas(projects', p.id)]_vars

\* C13: an executeProjectPlan call for an unknown project id fails with the
\* project-not-found error, a call for a known project that has no plan fails
\* with the no-plan-found error, and a failed call changes no project (none is
\* moved to executing) and suspends no execution.
C13_ExecuteFailures ==
  [][(last'.op \in {"executeProjectPlan", "executeProjectPlan.await"}
        /\ now' = now /\ Len(executions') >= Len(executions)) =>
       /\ ~MapHas(projects, last'.arg) => last'.err = "Project not found"
       /\ (MapHas(projects, last'.arg) /\ FindPlanFor(plans, last'.arg) = 0)
            => last'.err = "No plan found for project"
       /\ last'.err # "" =>
            (heap' = heap /\ projects' = projects /\ executions' = executions)]_vars

\* an execution was refused for a known project without a plan while another
\* project has one
C13_Witness ==
  /\ last.op = "executeProjectPlan"
  /\ last.err = "No plan found for project"
  /\ MapHas(projects, last.arg)
  /\ plans # <<>>
  /\ StatusOf(last.arg) # "executing"

MutatingOps ==
  {"registerAgent", "createProject", "startProject", "stopProject",
   "generateExecutionPlan", "executeProjectPlan", "executeProjectPlan.await"}

\* C14: once shutdown has run, the agent, project and plan registries are
\* empty and stay empty, and every mutating call made since was rejected.
C14_ShutdownRejects ==
  isShutdown =>
    /\ agents = <<>>
    /\ projects = <<>>
    /\ plans = <<>>
    /\ last.op \in MutatingOps => last.err # ""

\* C15: every shutdown call leaves the flag set, the three registries empty
\* and getSystemHealth reporting 'shutdown' with all counts 0, and a shutdown
\* call that follows a shutdown call changes nothing of the Orchestrator.
C15_ShutdownIdempotent ==
  [][(last'.op = "shutdown" /\ now' = now) =>
       /\ isShutdown'
       /\ agents' = <<>> /\ projects' = <<>> /\ plans' = <<>>
       /\ SystemHealth'.status = "shutdown"
       /\ SystemHealth'.agents = 0 /\ SystemHealth'.projects = 0 /\ SystemHealth'.plans = 0
       /\ last.op = "shutdown" => orchVars' = orchVars]_vars

\* shutdown was called twice in a row after projects had been created
C15_Witness ==
  /\ last.op = "shutdown"
  /\ last.prev = "shutdown"
  /\ isShutdown
  /\ heap # <<>>

\* C16: a getSystemHealth call changes no state and reports the numbers of
\* registered agents, stored projects and stored plans and the shutdown
\* status; a call that follows another with no call in between reports the
\* same counts and status.
C16_HealthReadOnly ==
  [][(last'.op = "getSystemHealth" /\ now' = now) =>
       /\ orchVars' = orchVars
       /\ plannerPlans' = plannerPlans
       /\ last'.ret.agents = Len(agents)
       /\ last'.ret.projects = Len(projects)
       /\ last'.ret.plans = Len(plans)
       /\ last'.ret.status = IF isShutdown THEN "shutdown" ELSE "healthy"
       /\ last.op = "getSystemHealth" =>
            /\ last'.ret.agents = last.ret.agents
            /\ last'.ret.projects = last.ret.projects
            /\ last'.ret.plans = last.ret.plans
            /\ last'.ret.status = last.ret.status]_vars

\* health was reported twice in a row, at different clock readings, with
\* agents, projects and plans present
C16_Witness ==
  /\ last.op = "getSystemHealth"
  /\ last.prev = "getSystemHealth"
  /\ last.ret.uptime > 0
  /\ last.ret.agents > 0 /\ last.ret.projects > 0 /\ last.ret.plans > 0

\* C17: registerAgent(a) stores a under a.name: a name that is new is added
\* at the end of the registry, a name that is already registered keeps its
\* place and has its agent replaced, and every other entry is untouched.
\* getAgent(name) returns the agent stored under the name, undefined when
\* there is none, and getAllAgents returns the stored agents in the registry's
\* order, one per name; neither changes the registry, which only registerAgent
\* and shutdown do.  So getAgent returns the last agent registered under the
\* name and getAllAgents lists the names in the order they were first
\* registered.
C17_AgentRegistry ==
  [][/\ last'.op = "registerAgent" =>
          LET a == last'.arg
          IN /\ MapGet(agents', a.name) = a
             /\ IF MapHas(agents, a.name)
                THEN /\ Len(agents') = Len(agents)
                     /\ \A i \in 1..Len(agents) :
                          /\ agents'[i].key = agents[i].key
                          /\ agents[i].key # a.name => agents'[i] = agents[i]
                ELSE agents' = Append(agents, [key |-> a.name, val |-> a])
     /\ last'.op = "getAgent" =>
          /\ agents' = agents
          /\ IF \E i \in 1..Len(agents) : agents[i].key = last'.arg
             THEN \E i \in 1..Len(agents) :
                    agents[i].key = last'.arg /\ last'.ret = agents[i].val
             ELSE last'.ret = Undefined
     /\ last'.op = "getAllAgents" =>
          /\ agents' = agents
          /\ Len(last'.ret) = Cardinality({agents[i].key : i \in 1..Len(agents)})
          /\ \A i \in 1..Len(agents) :
               last'.ret[i] = agents[i].val /\ last'.ret[i].name = agents[i].key
     /\ last'.op \notin {"registerAgent", "shutdown"} => agents' = agents]_vars

\* an agent was registered over the older agent of a name that was the first
\* of two registered names
C17_Witness ==
  /\ last.op = "registerAgent"
  /\ last.prev = "1.0.0"
  /\ last.arg.version = "2.0.0"
  /\ Len(agents) = 2
  /\ agents[1].val = last.arg

\* a requirement value that JavaScript takes for true in a condition
Truthy(v) == v \notin {"false", ""}
IsTrue(v) == v = "true"

\* the requirement key that gates an optional step
GateKey(base) ==
  CASE base = "setup_cms" -> "cms"
    [] base = "setup_monitoring" -> "monitoring"
    [] OTHER -> "none"

TemplateSteps(projectType) ==
  LET t == templates[MapIndex(templates, projectType)].val
  IN {t[i] : i \in 1..Len(t)}

KeptBases(plan) == {plan.steps[i].id.base : i \in 1..Len(plan.steps)}

\* required steps, and optional steps whose gating key is present with a
\* value that Enabled accepts
ExpectedKept(projectType, requirements, Enabled(_)) ==
  {t.id.base : t \in
     {u \in TemplateSteps(projectType) :
        \/ u.required
        \/ /\ GateKey(u.id.base) \in DOMAIN requirements
           /\ Enabled(requirements[GateKey(u.id.base)])}}

\* C18 as stated: the kept steps of every created plan are the required
\* template steps and the optional steps whose gating key is present with a
\* truthy value.
C18_KeptStepsTruthy ==
  \A i \in 1..Len(plannerPlans) :
    LET plan == plannerPlans[i].val
    IN KeptBases(plan) = ExpectedKept(plan.projectType, plan.requirements, Truthy)

\* C18 amended: the kept steps of every created plan are the required
\* template steps and the optional steps whose gating key is present with the
\* boolean value true.
C18_KeptStepsStrictlyTrue ==
  \A i \in 1..Len(plannerPlans) :
    LET plan == plannerPlans[i].val
    IN KeptBases(plan) = ExpectedKept(plan.projectType, plan.requirements, IsTrue)

\* a website plan created with cms = true keeps the optional CMS step
C18_Witness ==
  /\ last.op = "createPlan"
  /\ last.err = ""
  /\ last.ret.projectType = "website"
  /\ "cms" \in DOMAIN last.ret.requirements
  /\ last.ret.requirements["cms"] = "true"
  /\ "setup_cms" \in KeptBases(last.ret)
  /\ Len(last.ret.steps) = 10
  /\ \E i \in 1..Len(plannerPlans) : plannerPlans[i].val = last.ret

\* C19: an automation plan created with monitoring = false has no
\* setup_monitoring step, one created with monitoring = true has it.
C19_MonitoringGate ==
  \A i \in 1..Len(plannerPlans) :
    LET plan == plannerPlans[i].val
    IN (plan.projectType = "automation" /\ "monitoring" \in DOMAIN plan.requirements) =>
         /\ plan.requirements["monitoring"] = "false" => "setup_monitoring" \notin KeptBases(plan)
         /\ plan.requirements["monitoring"] = "true" => "setup_monitoring" \in KeptBases(plan)

\* the complexity multiplier in tenths
MultiplierTenths(requirements) ==
  IF "complexity" \notin DOMAIN requirements THEN 10
  ELSE CASE requirements["complexity"] = "high" -> 15
         [] requirements["complexity"] = "low" -> 8
         [] OTHER -> 10

\* round(base duration x multiplier), halves rounded up
ExpectedDuration(projectType, base, requirements) ==
  LET t == CHOOSE u \in TemplateSteps(projectType) : u.id.base = base
  IN (2 * t.estimatedDuration * MultiplierTenths(requirements) + 10) \div 20

RECURSIVE SumExpected(_, _)
SumExpected(plan, n) ==
  IF n = 0 THEN 0
  ELSE ExpectedDuration(plan.projectType, plan.steps[n].id.base, plan.requirements)
         + SumExpected(plan, n - 1)

Durations(plan) == [i \in 1..Len(plan.steps) |-> plan.steps[i].estimatedDuration]

\* C20: the plan a createPlan call returns has, for every kept step, the
\* duration round(base duration x multiplier), and as estimatedDuration their
\* sum; and it has the same total and the same per-step durations as every
\* stored plan that was created with the same project type and requirements.
C20_DurationIsRoundedSum ==
  [][(last'.op = "createPlan" /\ last'.err = "" /\ now' = now) =>
       LET plan == last'.ret
       IN /\ \A i \in 1..Len(plan.steps) :
               plan.steps[i].estimatedDuration =
                 ExpectedDuration(plan.projectType, plan.steps[i].id.base, plan.requirements)
          /\ plan.estimatedDuration = SumExpected(plan, Len(plan.steps))
          /\ \A i \in 1..Len(plannerPlans) :
               LET p == plannerPlans[i].val
               IN (p.projectType = plan.projectType /\ p.requirements = plan.requirements) =>
                    /\ p.estimatedDuration = plan.estimatedDuration
                    /\ Durations(p) = Durations(plan)]_vars

\* a second website plan of high complexity was created: 45 x 1.5 is rounded
\* up to 68 and the nine durations add up to 1373
C20_Witness ==
  /\ last.op = "createPlan"
  /\ last.err = ""
  /\ last.ret.projectType = "website"
  /\ last.ret.requirements = [complexity |-> "high"]
  /\ last.ret.steps[2].estimatedDuration = 68
  /\ last.ret.estimatedDuration = 1373
  /\ Len(plannerPlans) = 2
  /\ plannerPlans[2].val = last.ret
  /\ plannerPlans[1].val.id # last.ret.id
  /\ plannerPlans[1].val.projectType = "website"
  /\ plannerPlans[1].val.requirements = [complexity |-> "high"]

StepIds(plan) == {plan.steps[i].id : i \in 1..Len(plan.steps)}

\* C21: every successful createPlan call adds a plan record of its own (no
\* stored plan has the identity of the new plan) and no step of the new plan
\* has the identity of a step of a plan stored before.
C21_FreshIdentities ==
  [][(last'.op = "createPlan" /\ last'.err = "" /\ now' = now) =>
       /\ Len(plannerPlans') = Len(plannerPlans) + 1
       /\ \A i \in 1..Len(plannerPlans) :
            /\ plannerPlans[i].val.id # last'.ret.id
            /\ StepIds(plannerPlans[i].val) \cap StepIds(last'.ret) = {}]_vars

\* C22: in every plan the Planner holds, the steps' order values are pairwise
\* distinct and every identity in a step's dependencies is the identity of a
\* step of the same plan with a strictly lower order.
C22_OrderAndDependencies ==
  \A p \in 1..Len(plannerPlans) :
    LET steps == plannerPlans[p].val.steps
    IN /\ \A i, j \in 1..Len(steps) : i # j => steps[i].order # steps[j].order
       /\ \A i \in 1..Len(steps) :
            \A d \in 1..Len(steps[i].dependencies) :
              \E j \in 1..Len(steps) :
                /\ steps[j].id = steps[i].dependencies[d]
                /\ steps[j].order < steps[i].order

\* C23: a createPlan call for a project type that has no template fails with
\* "No template found for project type" and leaves the Planner's plan store
\* as it was; a call for a type that has a template does not fail.
C23_UnknownTypeFails ==
  [][(last'.op = "createPlan" /\ now' = now) =>
       IF \E i \in 1..Len(templates) : templates[i].key = last'.arg.projectType
       THEN last'.err = ""
       ELSE /\ last'.err = "No template found for project type"
            /\ plannerPlans' = plannerPlans]_vars

\* a plan was asked for a type without a template while a plan was stored
C23_Witness ==
  /\ last.op = "createPlan"
  /\ last.arg.projectType = "mobile"
  /\ last.err # ""
  /\ plannerPlans # <<>>

PlanEdits == {"approvePlan", "updatePlan", "addStep"}

\* C24: an approvePlan, updatePlan or addStep call for a plan identity the
\* store does not hold fails with "Plan not found" and leaves the store as it
\* was; for an identity it holds, the call succeeds, the plan stored under the
\* identity has the current clock reading as updatedAt, and the other plans
\* and the identities are as they were.
C24_PlanEdits ==
  [][(last'.op \in PlanEdits /\ now' = now) =>
       IF \E i \in 1..Len(plannerPlans) : plannerPlans[i].key = last'.arg
       THEN /\ last'.err = ""
            /\ Len(plannerPlans') = Len(plannerPlans)
            /\ \A i \in 1..Len(plannerPlans) :
                 /\ plannerPlans'[i].key = plannerPlans[i].key
                 /\ IF plannerPlans[i].key = last'.arg
                    THEN plannerPlans'[i].val.updatedAt = now
                    ELSE plannerPlans'[i] = plannerPlans[i]
       ELSE /\ last'.err = "Plan not found"
            /\ plannerPlans' = plannerPlans]_vars

\* a step was added to a plan created at an earlier clock reading
C24_Witness ==
  /\ last.op = "addStep"
  /\ last.err = ""
  /\ last.ret.updatedAt > last.ret.createdAt
  /\ Len(last.ret.steps) = 8
  /\ \E i \in 1..Len(plannerPlans) : plannerPlans[i].val = last.ret

CountOf(events, names) == Cardinality({i \in 1..Len(events) : events[i] \in names})

C26_ReviewScore ==
  last.op = "reviewStep" =>
    /\ last.err = ""
    /\ last.ret.score \in 0..100
    /\ last.ret.result = (last.ret.score >= 80)

\* a development step lost 20 points for code quality and passed with 80
C26_Witness ==
  /\ last.op = "reviewStep"
  /\ last.arg.type = "development"
  /\ last.ret.signals[1] = 69
  /\ last.ret.score = 80
  /\ last.ret.result

\* C27: every validateProject call returns, without throwing, a score in
\* 0..100 and valid = true exactly when the score is at least 85; it returns
\* no issue exactly when the score is 100, no more recommendations than
\* issues, and the plan has every field as it was given.
C27_ValidationScore ==
  last.op = "validateProject" =>
    /\ last.err = ""
    /\ last.ret.score \in 0..100
    /\ last.ret.valid = (last.ret.score >= 85)
    /\ (last.ret.issues = <<>>) = (last.ret.score = 100)
    /\ Len(last.ret.recommendations) <= Len(last.ret.issues)
    /\ last.ret.plan = last.arg

\* a website plan without a security step was validated with the score 85
C27_Witness ==
  /\ last.op = "validateProject"
  /\ last.arg.projectType = "website"
  /\ last.ret.score = 85
  /\ last.ret.valid
  /\ last.ret.issues = <<"Security measures not implemented">>

Answered == last.op \in RouteOps

\* C28: a start, stop, plan or execute request for an unknown project id is
\* answered with status 404 and success = false, a create request without
\* name or type with status 400, and status 500 is the answer to no request
\* that failed for an unknown project id or a missing field.
C28_StatusCodes ==
  Answered =>
    \A debugMode \in DebugModeInputs :
      LET response == RouteResponse(last, debugMode)
      IN /\ last.err = "Project not found" =>
              (response.status = 404 /\ ~response.success)
         /\ last.err = "Name and type are required" =>
              (response.status = 400 /\ ~response.success)
         /\ response.status = 500 =>
              last.err \notin {"", "Project not found", "Name and type are required"}

\* C29: with debug mode disabled, the answer to a request that failed inside
\* the Orchestrator carries the generic message, whatever the error was; with
\* debug mode enabled it carries the error's message.
C29_ErrorDetailOnlyInDebug ==
  (Answered /\ last.op # "POST /projects" /\ last.err # "") =>
    \A debugMode \in DebugModeInputs :
      RouteResponse(last, debugMode).error =
        IF debugMode THEN last.err ELSE "Something went wrong"

\* C30: when a suspended executeProjectPlan call returns, a project that was
\* stopped during its wait is still stopped.
C30_StopSurvivesExecution ==
  [][(last'.op = "executeProjectPlan" /\ last'.err = ""
        /\ Len(executions') < Len(executions)) =>
       \A i \in 1..Len(heap) :
         heap[i].status = "stopped" => heap'[i].status = "stopped"]_vars

\* C31: with no shutdown, the project store holds as many projects as
\* createProject calls have succeeded, which getSystemHealth reports, and
\* the projects constructed have pairwise distinct ids.
C31_DistinctProjects ==
  /\ Len(projects) = Len(heap)
  /\ SystemHealth.projects = Len(heap)
  /\ \A i, j \in 1..Len(heap) : i # j => heap[i].id # heap[j].id

\* C32: every plan in the Planner's store has an estimatedDuration equal to
\* the sum of the estimatedDuration of its current steps.
C32_DurationIsSumOfSteps ==
  \A i \in 1..Len(plannerPlans) :
     plannerPlans[i].val.estimatedDuration
       = calculateTotalDuration(plannerPlans[i].val.steps)

\* C33: validateProject reports valid = true for a website or automation
\* plan only when every required step of the plan is completed.
C33_ValidOnlyWhenRequiredDone ==
  (/\ last.op = "validateProject"
   /\ last.arg.projectType \in ProjectType
   /\ last.ret.valid)
  => RequiredStepsCompleted(last.arg)

\* C34: after any sequence of createPlan, addStep, updatePlan and approvePlan
\* calls the website and the automation template hold the steps, with the
\* identities, dependencies, durations and order values, they held at startup.
C34_TemplatesUnchanged == templates = initializeTemplates

\* website and automation plans were created, one of them with scaled
\* durations, approved and given a custom step
C34_Witness ==
  /\ \E i \in 1..Len(plannerPlans) :
       LET plan == plannerPlans[i].val
       IN /\ plan.status = "approved"
          /\ plan.requirements = [complexity |-> "high"]
          /\ plan.steps[Len(plan.steps)].id.base = "custom"
  /\ last.op \in {"createPlan", "addStep", "approvePlan", "updatePlan"}

\* C35: the plan stored under key k in the Planner's store has id k and the
\* projectId it was created with (the project part of k).
C35_StoredUnderOwnIdentity ==
  \A i \in 1..Len(plannerPlans) :
    /\ plannerPlans[i].val.id = plannerPlans[i].key
    /\ plannerPlans[i].val.projectId = plannerPlans[i].key.pid

\* C36: every executeProjectPlan call that found its project and a plan and
\* was suspended at its timer returns, and at its return the project it found
\* is completed or failed, not executing.
C36_ExecutionReturnsTerminal ==
  /\ [][\A i \in 1..Len(executions) :
         (/\ executions' = SubSeq(executions, 1, i - 1)
                             \o SubSeq(executions, i + 1, Len(executions))
          /\ last'.op = "executeProjectPlan")
         => /\ last'.err = ""
            /\ heap'[executions[i].ref].status \in {"completed", "failed"}]_vars
  /\ \A s \in 0..MaxMs :
       (\E i \in 1..Len(executions) : executions[i].start = s)
         ~> (\A i \in 1..Len(executions) : executions[i].start # s)

\* a call that started after the first millisecond returned 2000 ms later
\* and left its project completed
C36_Witness ==
  /\ last.op = "executeProjectPlan"
  /\ last.err = ""
  /\ now > ExecDelay
  /\ executions = <<>>
  /\ MapHas(projects, last.arg)
  /\ StatusOf(last.arg) = "completed"

\* whether the first and the second check of the step's type deducts, given
\* the two simulated signals
FirstDeducts(step, s1) ==
  CASE step.type = "development" ->
         (Includes(step.name, "Backend") \/ Includes(step.name, "Frontend")) /\ s1 < 70
    [] step.type = "testing" -> s1 < 80
    [] step.type = "deployment" -> s1 < 85
    [] step.type = "integration" -> s1 < 85
    [] OTHER -> s1 < 90

SecondDeducts(step, s2) ==
  CASE step.type = "development" ->
         (Includes(step.name, "API") \/ Includes(step.name, "Backend")) /\ s2 < 80
    [] step.type = "testing" -> s2 < 75
    [] step.type = "deployment" -> s2 < 90
    [] step.type = "integration" -> s2 < 70
    [] OTHER -> FALSE

\* C37: reviewStep returns true for every setup, planning, infrastructure or
\* analysis step whatever the signal; for a development, testing, deployment
\* or integration step it returns false exactly when both deductions of the
\* type are triggered, or, for testing, the coverage deduction alone.
C37_ReviewVerdicts ==
  last.op = "reviewStep" =>
    LET step == last.arg
        first == FirstDeducts(step, last.ret.signals[1])
        second == SecondDeducts(step, last.ret.signals[2])
    IN /\ step.type \in {"setup", "planning", "infrastructure", "analysis"}
            => last.ret.result
       /\ step.type \in {"development", "testing", "deployment", "integration"}
            => (~last.ret.result)
                 = ((first /\ second) \/ (step.type = "testing" /\ first /\ ~second))

\* a testing step failed its review on the coverage deduction alone
C37_Witness ==
  /\ last.op = "reviewStep"
  /\ last.arg.type = "testing"
  /\ last.ret.signals = <<79, 75>>
  /\ last.ret.issues = <<"Insufficient test coverage">>
  /\ ~last.ret.result

\* the number of answers a session holds for a pattern
AnswerCount(session, id) ==
  IF MapHas(session.answers, id) THEN Len(MapGet(session.answers, id)) ELSE 0

\* the patterns of a session that have fewer answers than questions
Unanswered(session) ==
  {k \in 1..Len(session.patterns) :
     AnswerCount(session, session.patterns[k].id) < Len(session.patterns[k].questions)}

\* C38: getNextQuestion returns the question at index (number of answers
\* stored for the pattern) of the lowest-order pattern of the session that is
\* not fully answered, and null exactly when every pattern of the session has
\* as many answers as questions.
C38_NextQuestion ==
  (last.op = "getNextQuestion" /\ last.err = "") =>
    LET session == MapGet(activeSessions, last.arg)
        open == Unanswered(session)
    IN /\ (last.ret = Null) = (open = {})
       /\ open # {} =>
            LET k == CHOOSE k \in open :
                       \A j \in open : session.patterns[k].order <= session.patterns[j].order
                pattern == session.patterns[k]
            IN last.ret = pattern.questions[AnswerCount(session, pattern.id) + 1]

\* the first question of the second pattern was asked once the first pattern
\* had all its answers
C38_Witness ==
  /\ last.op = "getNextQuestion"
  /\ last.err = ""
  /\ last.ret = Question("website_advanced", 1)
  /\ AnswerCount(MapGet(activeSessions, last.arg), "website_basic") = QuestionsPerPattern

\* C39: over every submitAnswer, getNextQuestion and completeSession call,
\* currentPattern of a session does not decrease and does not exceed the
\* number of patterns, no pattern holds more answers than it has questions,
\* and a submitAnswer call on a completed session leaves the answers as they
\* were.
C39_SessionInvariants ==
  [][(last'.op \in {"submitAnswer", "getNextQuestion", "completeSession"} /\ now' = now) =>
       \A i \in 1..Len(activeSessions) :
         LET before == activeSessions[i].val
             after == activeSessions'[i].val
         IN /\ after.currentPattern >= before.currentPattern
            /\ after.currentPattern <= Len(after.patterns)
            /\ \A k \in 1..Len(after.patterns) :
                 AnswerCount(after, after.patterns[k].id) <= Len(after.patterns[k].questions)
            /\ (last'.op = "submitAnswer" /\ before.status = "completed")
                 => after.answers = before.answers]_vars

TypeOK ==
  /\ now \in 0..(MaxWaits * ExecDelay + MaxMs)
  /\ isShutdown \in BOOLEAN
  /\ \A i \in 1..Len(heap) : heap[i].status \in ProjectStatus
  /\ \A i \in 1..Len(plans) : plans[i].val.status \in PlanStatus
====
